---------------------------- MODULE Spec2Model ----------------------------
(***************************************************************************)
(* RASA: a keyword router, two specialist agents, a tool dispatcher and an *)
(* in-memory knowledge store (src/main.py, src/custom_tools.py).           *)
(*                                                                         *)
(* Text is modelled as sequences of one-character strings, so that         *)
(* lower(), "in", split(), strip() and join() are computed and not assumed.*)
(***************************************************************************)
EXTENDS Integers, Sequences, FiniteSets, TLC

VARIABLES
    db,             \* RESEARCH_BANK.db: user id -> topic -> list of findings
    call,           \* the store operation that ran last (name and arguments)
    ret,            \* what that operation returned (or that it raised)
    prevCall,       \* the store operation that ran before it
    prevRet,        \* and what that one returned
    saved,          \* history: the <<user, topic, finding>> saved so far, in order
    messages,       \* RASAState["messages"]
    user_id,        \* RASAState["user_id"]
    research_topic, \* RASAState["research_topic"]
    intent,         \* RASAState["intent"]
    node,           \* the orchestrator's position in the workflow graph
    batches,        \* history: tool batches the Research Agent has requested
    dispatched,     \* history: tool batches the dispatcher has executed
    startup,        \* the import of main.py: position, environment, outcome
    savers,         \* save_finding calls running in threads: position and arguments
    overlapped      \* history: a save_finding call began while another was running

storeVars == <<db, call, ret, prevCall, prevRet, saved>>
turnVars  == <<messages, user_id, research_topic, intent, node, batches, dispatched>>
procVars  == <<startup, savers, overlapped>>
vars      == <<db, call, ret, prevCall, prevRet, saved, messages, user_id,
               research_topic, intent, node, batches, dispatched,
               startup, savers, overlapped>>

---------------------------------------------------------------------------
(* Bounds of the model.                                                    *)

\* findings saved in one run of the store specification
MaxSaves == 3
\* pieces concatenated into one message given to the router
MaxPieces == 3
\* messages in the message sequence of one turn
MaxMsgs == 7

---------------------------------------------------------------------------
(* Text primitives (Python str), on sequences of characters.               *)

UpperCase ==
    <<"A","B","C","D","E","F","G","H","I","J","K","L","M","N","O","P","Q","R","S","T","U","V",
      "W","X","Y","Z">>
LowerCase ==
    <<"a","b","c","d","e","f","g","h","i","j","k","l","m","n","o","p","q","r","s","t","u","v",
      "w","x","y","z">>

\* str.lower() on one character
LowerChar(c) ==
    IF \E i \in DOMAIN UpperCase : UpperCase[i] = c
    THEN LowerCase[CHOOSE i \in DOMAIN UpperCase : UpperCase[i] = c]
    ELSE c

\* str.lower()
Lower(s) == [i \in DOMAIN s |-> LowerChar(s[i])]

\* whether sub occurs in s at (1-based) position i
MatchAt(s, sub, i) ==
    /\ i >= 1
    /\ i + Len(sub) - 1 <= Len(s)
    /\ SubSeq(s, i, i + Len(sub) - 1) = sub

\* Python's "sub in s"
Contains(s, sub) == \E i \in 1..(Len(s) + 1) : MatchAt(s, sub, i)

\* str.find(): the first position of sub in s, 0 when there is none
Find(s, sub) ==
    IF Contains(s, sub)
    THEN CHOOSE i \in 1..(Len(s) + 1) :
            /\ MatchAt(s, sub, i)
            /\ \A j \in 1..(i - 1) : ~MatchAt(s, sub, j)
    ELSE 0

\* str.split(sep): scans left to right, each match consumes its characters
RECURSIVE Split(_, _)
Split(s, sep) ==
    LET i == Find(s, sep) IN
    IF i = 0
    THEN <<s>>
    ELSE <<SubSeq(s, 1, i - 1)>> \o Split(SubSeq(s, i + Len(sep), Len(s)), sep)

\* the characters str.strip() removes
Whitespace == {" ", "\t", "\n"}

\* str.strip()
Strip(s) ==
    LET keep == {i \in DOMAIN s : s[i] \notin Whitespace} IN
    IF keep = {}
    THEN <<>>
    ELSE SubSeq(s, CHOOSE i \in keep : \A j \in keep : i <= j,
                   CHOOSE i \in keep : \A j \in keep : i >= j)

\* sep.join(items)
RECURSIVE Join(_, _)
Join(sep, items) ==
    IF items = <<>> THEN <<>>
    ELSE IF Len(items) = 1 THEN items[1]
    ELSE items[1] \o sep \o Join(sep, Tail(items))

---------------------------------------------------------------------------
(* The knowledge store (src/custom_tools.py).                              *)

SeedUser == 101
SeedTopic ==
    <<"Q","u","a","n","t","u","m"," ","C","o","m","p","u","t","i","n","g">>
SeedNote ==
    <<"I","n","i","t","i","a","l"," ","n","o","t","e","s"," ","o","n"," ","Q","u","b","i","t",
      " ","e","n","t","a","n","g","l","e","m","e","n","t",".">>
NoFindings ==
    <<"N","o"," ","c","u","r","r","e","n","t"," ","f","i","n","d","i","n","g","s"," ","o","n",
      " ","t","h","i","s"," ","t","o","p","i","c",".">>
BulletSep ==
    <<"\n","-"," ">>
SummaryPrefix ==
    <<"E","x","i","s","t","i","n","g"," ","k","n","o","w","l","e","d","g","e"," ","o","n"," ",
      "'">>
SummarySuffix ==
    <<"'",":","\n","-"," ">>
SavedPrefix ==
    <<"F","i","n","d","i","n","g"," ","s","u","c","c","e","s","s","f","u","l","l","y"," ","s",
      "a","v","e","d"," ","t","o"," ","R","e","s","e","a","r","c","h"," ","B","a","n","k"," ",
      "u","n","d","e","r"," ","t","o","p","i","c"," ","'">>
SavedSuffix ==
    <<"'",".">>

\* a dict with no keys
EmptyDict == [k \in {} |-> <<>>]

\* ResearchKnowledgeBank.__init__: the store as constructed
InitialDb == (SeedUser :> (SeedTopic :> <<SeedNote>>))

\* the arguments the store operations are called with
OtherTopic == <<"A","I">>
NoteA == <<"a">>
NoteB == <<"b">>
NoteWithBullet == <<"c","\n","-"," ","d">>
UserIds  == {SeedUser, 102}
Topics   == {SeedTopic, OtherTopic}
Findings == {NoteA, NoteB, NoteWithBullet}

\* a normal return of a tool, and an exception leaving it
Returned(text) == [status |-> "ok", value |-> text]
Raised(exc)    == [status |-> "raised", value |-> exc]

\* save_finding, a faulty variant: the new finding goes to the front of the ledger
SaveFindingPrepend(d, u, t, f) ==
    LET d1 == IF u \notin DOMAIN d THEN d @@ (u :> EmptyDict) ELSE d
        d2 == IF t \notin DOMAIN d1[u] THEN [d1 EXCEPT ![u] = @ @@ (t :> <<>>)] ELSE d1
    IN  [d2 EXCEPT ![u][t] = <<f>> \o @]

\* save_finding, a faulty variant: a finding already in the ledger is not stored again
SaveFindingDedup(d, u, t, f) ==
    LET d1 == IF u \notin DOMAIN d THEN d @@ (u :> EmptyDict) ELSE d
        d2 == IF t \notin DOMAIN d1[u] THEN [d1 EXCEPT ![u] = @ @@ (t :> <<>>)] ELSE d1
    IN  IF \E i \in DOMAIN d2[u][t] : d2[u][t][i] = f
        THEN d2
        ELSE [d2 EXCEPT ![u][t] = Append(@, f)]

\* save_finding, a faulty variant: the ledger is assigned, not appended to
SaveFindingReplacing(d, u, t, f) ==
    LET d1 == IF u \notin DOMAIN d THEN d @@ (u :> EmptyDict) ELSE d
        d2 == IF t \notin DOMAIN d1[u] THEN [d1 EXCEPT ![u] = @ @@ (t :> <<>>)] ELSE d1
    IN  [d2 EXCEPT ![u][t] = <<f>>]

\* save_finding: the store after the call
SaveFinding(d, u, t, f) ==
    LET d1 == IF u \notin DOMAIN d THEN d @@ (u :> EmptyDict) ELSE d
        d2 == IF t \notin DOMAIN d1[u] THEN [d1 EXCEPT ![u] = @ @@ (t :> <<>>)] ELSE d1
    IN  [d2 EXCEPT ![u][t] = Append(@, f)]

\* save_finding: its return value
SaveFindingResult(t) == Returned(SavedPrefix \o t \o SavedSuffix)

\* summarize_topic_knowledge, a faulty variant: indexes the store instead of .get()
SummarizeIndexing(d, u, t) ==
    IF u \in DOMAIN d /\ t \in DOMAIN d[u]
    THEN Returned(SummaryPrefix \o t \o SummarySuffix \o Join(BulletSep, d[u][t]))
    ELSE Raised("KeyError")

\* summarize_topic_knowledge: its return value
Summarize(d, u, t) ==
    LET user_data == IF u \in DOMAIN d THEN d[u] ELSE EmptyDict
        findings  == IF t \in DOMAIN user_data THEN user_data[t] ELSE <<NoFindings>>
        summary   == Join(BulletSep, findings)
    IN  Returned(SummaryPrefix \o t \o SummarySuffix \o summary)

\* summarize_topic_knowledge, a faulty variant: the lookup creates the missing
\* user record and ledger (a defaultdict store)
StoreAfterSummarizeCreating(d, u, t) ==
    LET d1 == IF u \notin DOMAIN d THEN d @@ (u :> EmptyDict) ELSE d
    IN  IF t \notin DOMAIN d1[u] THEN [d1 EXCEPT ![u] = @ @@ (t :> <<>>)] ELSE d1

\* summarize_topic_knowledge: the store after the call (.get() writes nothing)
StoreAfterSummarize(d, u, t) == d

NoCall == [op |-> "none"]

\* a direct call of save_finding
SaveCall(u, t, f) ==
    /\ Len(saved) < MaxSaves
    /\ db' = SaveFinding(db, u, t, f)
    /\ ret' = SaveFindingResult(t)
    /\ call' = [op |-> "save_finding", user_id |-> u, topic |-> t, finding |-> f]
    /\ prevCall' = call
    /\ prevRet' = ret
    /\ saved' = Append(saved, <<u, t, f>>)
    /\ UNCHANGED turnVars
    /\ UNCHANGED procVars

\* a direct call of summarize_topic_knowledge
SummarizeCall(u, t) ==
    /\ ret' = Summarize(db, u, t)
    /\ db' = StoreAfterSummarize(db, u, t)
    /\ call' = [op |-> "summarize_topic_knowledge", user_id |-> u, topic |-> t]
    /\ prevCall' = call
    /\ prevRet' = ret
    /\ UNCHANGED saved
    /\ UNCHANGED turnVars
    /\ UNCHANGED procVars

\* outside the specifications of startup and of threads: the import of
\* main.py is not followed, and no save_finding call runs in a thread
StartupNotFollowed == [pc |-> "not followed"]
NoSavers == <<>>

\* the store at import time, before any conversation state exists
InitStore ==
    /\ db = InitialDb
    /\ call = NoCall
    /\ ret = Returned(<<>>)
    /\ prevCall = NoCall
    /\ prevRet = Returned(<<>>)
    /\ saved = <<>>
    /\ messages = <<>>
    /\ user_id = SeedUser
    /\ research_topic = <<>>
    /\ intent = ""
    /\ node = "IDLE"
    /\ batches = 0
    /\ dispatched = 0
    /\ startup = StartupNotFollowed
    /\ savers = NoSavers
    /\ overlapped = FALSE

NextStore ==
    \/ \E u \in UserIds, t \in Topics, f \in Findings : SaveCall(u, t, f)
    \/ \E u \in UserIds, t \in Topics : SummarizeCall(u, t)

SpecStore == InitStore /\ [][NextStore]_vars

---------------------------------------------------------------------------
(* The conversation state and the router (src/main.py).                    *)

\* langchain_core.messages: HumanMessage, AIMessage, ToolMessage
HumanMessage(text) ==
    [role |-> "human", content |-> text, tool_calls |-> <<>>, tool_call_id |-> 0,
     status |-> "success"]
AIMessage(text, calls) ==
    [role |-> "ai", content |-> text, tool_calls |-> calls, tool_call_id |-> 0,
     status |-> "success"]
ToolMessage(text, id, st) ==
    [role |-> "tool", content |-> text, tool_calls |-> <<>>, tool_call_id |-> id,
     status |-> st]

\* seq[-1]
Last(seq) == seq[Len(seq)]

KwResearch ==
    <<"r","e","s","e","a","r","c","h">>
KwFindFacts ==
    <<"f","i","n","d"," ","f","a","c","t","s">>
KwTestMe ==
    <<"t","e","s","t"," ","m","e">>
KwExplain ==
    <<"e","x","p","l","a","i","n">>
TopicDelim ==
    <<" ","o","n"," ">>
GeneralTopic ==
    <<"G","e","n","e","r","a","l"," ","I","n","q","u","i","r","y">>
KwOf ==
    <<" ","o","f"," ">>

\* the topic extraction, a faulty variant: keeps the first segment of the split
ExtractTopicFirstSegment(last_message) == Strip(Split(last_message, TopicDelim)[1])

\* the topic extraction, a faulty variant: splits on " of " as well as on " on "
ExtractTopicAlsoOf(last_message) ==
    Strip(Last(Split(Last(Split(last_message, TopicDelim)), KwOf)))

\* last_message.split(" on ")[-1].strip()
ExtractTopic(last_message) == Strip(Last(Split(last_message, TopicDelim)))

\* route_request, a faulty variant: the STUDY keywords are tested first
RouteRequestStudyFirst(last_message) ==
    LET lowered == Lower(last_message) IN
    IF Contains(lowered, KwTestMe) \/ Contains(lowered, KwExplain)
    THEN [intent |-> "STUDY", research_topic |-> ExtractTopic(last_message)]
    ELSE IF Contains(lowered, KwResearch) \/ Contains(lowered, KwFindFacts)
    THEN [intent |-> "RESEARCH", research_topic |-> ExtractTopic(last_message)]
    ELSE [intent |-> "GENERAL", research_topic |-> GeneralTopic]

\* route_request, a faulty variant: the update repeats the message it has read
RouteRequestEchoing(last_message) ==
    LET lowered == Lower(last_message) IN
    IF Contains(lowered, KwResearch) \/ Contains(lowered, KwFindFacts)
    THEN [intent |-> "RESEARCH", research_topic |-> ExtractTopic(last_message),
          messages |-> <<HumanMessage(last_message)>>]
    ELSE IF Contains(lowered, KwTestMe) \/ Contains(lowered, KwExplain)
    THEN [intent |-> "STUDY", research_topic |-> ExtractTopic(last_message),
          messages |-> <<HumanMessage(last_message)>>]
    ELSE [intent |-> "GENERAL", research_topic |-> GeneralTopic,
          messages |-> <<HumanMessage(last_message)>>]

\* route_request: the state update it returns for the text of the last message
RouteRequest(last_message) ==
    LET lowered == Lower(last_message) IN
    IF Contains(lowered, KwResearch) \/ Contains(lowered, KwFindFacts)
    THEN [intent |-> "RESEARCH", research_topic |-> ExtractTopic(last_message)]
    ELSE IF Contains(lowered, KwTestMe) \/ Contains(lowered, KwExplain)
    THEN [intent |-> "STUDY", research_topic |-> ExtractTopic(last_message)]
    ELSE [intent |-> "GENERAL", research_topic |-> GeneralTopic]

\* the router's conditional edge, a faulty variant: GENERAL goes to the Study Agent
RouterEdgeGeneralToStudy(i) ==
    CASE i = "RESEARCH" -> "RESEARCHING"
      [] i = "STUDY"    -> "STUDYING"
      [] i = "GENERAL"  -> "STUDYING"

\* the router's conditional edge: lambda state: state['intent'] and its map
RouterEdge(i) ==
    CASE i = "RESEARCH" -> "RESEARCHING"
      [] i = "STUDY"    -> "STUDYING"
      [] i = "GENERAL"  -> "DONE"

\* the channels of RASAState a node's update does not name keep their value;
\* "messages" is Annotated with operator.add, so an update extends it
MergedMessages(update, msgs) ==
    IF "messages" \in DOMAIN update THEN msgs \o update.messages ELSE msgs
MergedUserId(update, uid) ==
    IF "user_id" \in DOMAIN update THEN update.user_id ELSE uid

\* the router node and the edge out of it
RouterStep ==
    /\ node = "ROUTING"
    /\ messages # <<>>
    /\ LET update == RouteRequest(Last(messages).content) IN
        /\ intent' = update.intent
        /\ research_topic' = update.research_topic
        /\ messages' = MergedMessages(update, messages)
        /\ user_id' = MergedUserId(update, user_id)
        /\ node' = RouterEdge(update.intent)
    /\ UNCHANGED <<batches, dispatched>>
    /\ UNCHANGED storeVars
    /\ UNCHANGED procVars

\* the router node when the turn comes without a message:
\* state["messages"][-1] raises IndexError, which ends app.invoke
RouterRaises ==
    /\ node = "ROUTING"
    /\ messages = <<>>
    /\ node' = "FAILED"
    /\ UNCHANGED <<messages, user_id, research_topic, intent, batches, dispatched>>
    /\ UNCHANGED storeVars
    /\ UNCHANGED procVars

MsgHello ==
    <<"H","e","l","l","o"," ","t","h","e","r","e">>
MsgSpecResearch ==
    <<"P","l","e","a","s","e"," ","r","e","s","e","a","r","c","h"," ","t","h","e"," ","c","u",
      "r","r","e","n","t"," ","s","t","a","t","e"," ","o","f"," ","Q","u","a","n","t","u","m",
      " ","C","o","m","p","u","t","i","n","g">>
MsgStudyQuery ==
    <<"T","e","s","t"," ","m","e"," ","o","n"," ","Q","u","a","n","t","u","m"," ","C","o","m",
      "p","u","t","i","n","g","."," ","W","h","a","t"," ","i","s"," ","a"," ","q","u","b","i",
      "t","?">>
MsgResearchQuery ==
    <<"P","l","e","a","s","e"," ","r","e","s","e","a","r","c","h"," ","t","h","e"," ","c","u",
      "r","r","e","n","t"," ","s","t","a","t","e"," ","o","f"," ","Q","u","a","n","t","u","m",
      " ","C","o","m","p","u","t","i","n","g"," ","a","n","d"," ","s","a","v","e"," ","t","h",
      "e"," ","m","a","i","n"," ","f","i","n","d","i","n","g",".">>

\* the queries of the examples (research_query, study_query and the short ones)
ExampleQueries == {MsgHello, MsgSpecResearch, MsgStudyQuery, MsgResearchQuery}

\* the pieces messages are put together from
PieceResearchCap ==
    <<"R","e","s","e","a","r","c","h">>
PieceOnNoLead ==
    <<"o","n"," ">>
Pieces ==
    {KwResearch, PieceResearchCap, KwFindFacts, KwTestMe, KwExplain, TopicDelim,
     PieceOnNoLead, <<"x">>}

\* every concatenation of n pieces
RECURSIVE Concats(_)
Concats(n) ==
    IF n = 0 THEN {<<>>} ELSE {p \o rest : p \in Pieces, rest \in Concats(n - 1)}

\* the message texts the router is run on
RouterInputs == ExampleQueries \cup UNION {Concats(n) : n \in 0..MaxPieces}

\* the state a turn is invoked with (inputs_1, inputs_2), the store as it is
\* after import
InitTurn(queries) ==
    /\ db = InitialDb
    /\ call = NoCall
    /\ ret = Returned(<<>>)
    /\ prevCall = NoCall
    /\ prevRet = Returned(<<>>)
    /\ saved = <<>>
    /\ \E q \in queries : messages = <<HumanMessage(q)>>
    /\ user_id \in UserIds
    /\ research_topic = SeedTopic
    /\ intent = ""
    /\ node = "ROUTING"
    /\ batches = 0
    /\ dispatched = 0
    /\ startup = StartupNotFollowed
    /\ savers = NoSavers
    /\ overlapped = FALSE

InitRouter == InitTurn(RouterInputs)

SpecRouter == InitRouter /\ [][RouterStep]_vars

\* a turn invoked with any message sequence the caller may pass, the empty
\* one included
InitMalformed ==
    /\ db = InitialDb
    /\ call = NoCall
    /\ ret = Returned(<<>>)
    /\ prevCall = NoCall
    /\ prevRet = Returned(<<>>)
    /\ saved = <<>>
    /\ messages \in {<<>>} \cup {<<HumanMessage(q)>> : q \in RouterInputs}
    /\ user_id \in UserIds
    /\ research_topic = SeedTopic
    /\ intent = ""
    /\ node = "ROUTING"
    /\ batches = 0
    /\ dispatched = 0
    /\ startup = StartupNotFollowed
    /\ savers = NoSavers
    /\ overlapped = FALSE

NextMalformed == RouterStep \/ RouterRaises

SpecMalformed == InitMalformed /\ [][NextMalformed]_vars

---------------------------------------------------------------------------
(* The agents, the tool dispatcher and the workflow graph (src/main.py).   *)
(* A turn is followed as long as no node raises.                            *)

AnswerText ==
    <<"F","i","n","a","l"," ","a","n","s","w","e","r",".">>
SearchQuery ==
    <<"q","u","b","i","t","s">>
SearchResultText ==
    <<"S","e","a","r","c","h"," ","r","e","s","u","l","t",".">>
NotAToolText ==
    <<"E","r","r","o","r",":"," ","l","o","o","k","u","p"," ","i","s"," ","n","o","t"," ","a",
      " ","v","a","l","i","d"," ","t","o","o","l">>

\* all_tools, by name
ToolNames == {"save_finding", "summarize_topic_knowledge", "google_search"}

\* the tool calls the model asks for: one per tool, and one of a tool that
\* is not in all_tools
ToolRequests ==
    { [name |-> "save_finding",
       args |-> [user_id |-> SeedUser, topic |-> SeedTopic, finding |-> NoteA]],
      [name |-> "summarize_topic_knowledge",
       args |-> [user_id |-> SeedUser, topic |-> SeedTopic]],
      [name |-> "google_search", args |-> [query |-> SearchQuery]],
      [name |-> "lookup", args |-> [query |-> SearchQuery]] }

\* the tool calls issued so far: each new call gets an id of its own
RECURSIVE NumIssued(_)
NumIssued(msgs) ==
    IF msgs = <<>> THEN 0 ELSE Len(Head(msgs).tool_calls) + NumIssued(Tail(msgs))

\* llm_with_tools.invoke: what the model may answer to the Research Agent, a
\* final answer or a batch of tool calls (as many as leave room, within the
\* bound, for their results and a final answer)
ResearchResponses(msgs) ==
    {AIMessage(AnswerText, <<>>)}
    \cup { AIMessage(<<>>, [k \in DOMAIN reqs |->
                [name |-> reqs[k].name, args |-> reqs[k].args, id |-> NumIssued(msgs) + k]]) :
           reqs \in UNION {[1..n -> ToolRequests] : n \in 1..(MaxMsgs - Len(msgs) - 2)} }

\* llm.invoke(prompt): what the model, given no tools, may answer to the
\* Study Agent
StudyResponses == {AIMessage(AnswerText, <<>>)}

\* check_agent_status, a faulty variant: one tool call alone is not a tool batch
CheckAgentStatusMoreThanOne(msgs) ==
    IF Len(Last(msgs).tool_calls) > 1 THEN "call_tool" ELSE "respond_final"

\* check_agent_status, a faulty variant: after one tool batch the loop is ended
CheckAgentStatusCapped(msgs) ==
    IF /\ Last(msgs).tool_calls # <<>>
       /\ Cardinality({i \in DOMAIN msgs : msgs[i].tool_calls # <<>>}) <= 1
    THEN "call_tool" ELSE "respond_final"

\* check_agent_status
CheckAgentStatus(msgs) ==
    IF Last(msgs).tool_calls # <<>> THEN "call_tool" ELSE "respond_final"

\* the Research Agent's conditional edge
ResearchEdge(status) ==
    CASE status = "call_tool"     -> "TOOL_EXECUTING"
      [] status = "respond_final" -> "DONE"

\* the edge out of study_agent, a faulty variant: it leads to the Research Agent
AfterStudyAgentToResearch == "RESEARCHING"

\* workflow.add_edge("study_agent", END)
AfterStudyAgent == "DONE"

\* workflow.add_edge("tool_executor", "research_agent")
AfterToolExecutor == "RESEARCHING"

\* the dispatcher's output, a faulty variant: results are kept newest first
CollectNewestFirst(out, msg) == <<msg>> \o out

\* the dispatcher's output: one result per request, in the order requested
Collect(out, msg) == Append(out, msg)

\* one tool call run by the dispatcher: the store and the results after it
ExecTool(st, c) ==
    CASE c.name = "save_finding" ->
            LET r == SaveFindingResult(c.args.topic) IN
            [db       |-> SaveFinding(st.db, c.args.user_id, c.args.topic, c.args.finding),
             saved    |-> Append(st.saved, <<c.args.user_id, c.args.topic, c.args.finding>>),
             call     |-> [op |-> "save_finding", user_id |-> c.args.user_id,
                           topic |-> c.args.topic, finding |-> c.args.finding],
             ret      |-> r,
             prevCall |-> st.call,
             prevRet  |-> st.ret,
             out      |-> Collect(st.out, ToolMessage(r.value, c.id, "success"))]
      [] c.name = "summarize_topic_knowledge" ->
            LET r == Summarize(st.db, c.args.user_id, c.args.topic) IN
            [db       |-> StoreAfterSummarize(st.db, c.args.user_id, c.args.topic),
             saved    |-> st.saved,
             call     |-> [op |-> "summarize_topic_knowledge", user_id |-> c.args.user_id,
                           topic |-> c.args.topic],
             ret      |-> r,
             prevCall |-> st.call,
             prevRet  |-> st.ret,
             out      |-> Collect(st.out, ToolMessage(r.value, c.id, "success"))]
      [] c.name = "google_search" ->
            [st EXCEPT !.out = Collect(@, ToolMessage(SearchResultText, c.id, "success"))]
      [] c.name \notin ToolNames ->
            [st EXCEPT !.out = Collect(@, ToolMessage(NotAToolText, c.id, "error"))]

\* ToolNode: every tool call of the message, in the order requested
RECURSIVE RunToolCalls(_, _)
RunToolCalls(st, calls) ==
    IF calls = <<>> THEN st ELSE RunToolCalls(ExecTool(st, Head(calls)), Tail(calls))

\* the character ` of the prompt
Backtick == "backtick"

\* system_prompt: the text before and after the topic
SystemPromptHead ==
    <<"\n"," "," "," "," ","Y","o","u"," ","a","r","e"," ","a"," ","D","e","e","p"," ","R","e",
      "s","e","a","r","c","h"," ","A","s","s","i","s","t","a","n","t","."," ","Y","o","u","r",
      " ","g","o","a","l"," ","i","s"," ","t","o"," ","p","r","o","v","i","d","e"," ","c","o",
      "m","p","r","e","h","e","n","s","i","v","e",","," ","s","o","u","r","c","e","d"," ","a",
      "n","s","w","e","r","s",".","\n"," "," "," "," ","Y","o","u","r"," ","t","o","p","i","c",
      " ","i","s"," ">>
SystemPromptTail ==
    <<".","\n"," "," "," "," ","\n"," "," "," "," ","1","."," ","*","*","P","l","a","n",":","*",
      "*"," ","U","s","e"," ",Backtick,"s","u","m","m","a","r","i","z","e","_","t","o","p","i","c",
      "_","k","n","o","w","l","e","d","g","e",Backtick," ","t","o"," ","c","h","e","c","k"," ","w",
      "h","a","t"," ","t","h","e"," ","u","s","e","r"," ","a","l","r","e","a","d","y"," ","k",
      "n","o","w","s",".","\n"," "," "," "," ","2","."," ","*","*","E","x","e","c","u","t","e",
      ":","*","*"," ","U","s","e"," ",Backtick,"G","o","o","g","l","e"," ","S","e","a","r","c","h",
      Backtick," ","t","o"," ","f","i","n","d"," ","n","e","w"," ","i","n","f","o","r","m","a","t",
      "i","o","n",".","\n"," "," "," "," ","3","."," ","*","*","S","y","n","t","h","e","s","i",
      "z","e",":","*","*"," ","I","f"," ","a"," ","n","e","w"," ","f","a","c","t"," ","i","s",
      " ","f","o","u","n","d",","," ","u","s","e"," ",Backtick,"s","a","v","e","_","f","i","n","d",
      "i","n","g",Backtick," ","t","o"," ","u","p","d","a","t","e"," ","t","h","e"," ","R","e","s",
      "e","a","r","c","h"," ","B","a","n","k",".","\n"," "," "," "," ","4","."," ","*","*","O",
      "u","t","p","u","t",":","*","*"," ","P","r","o","v","i","d","e"," ","a"," ","f","i","n",
      "a","l",","," ","s","u","m","m","a","r","i","z","e","d"," ","a","n","s","w","e","r"," ",
      "w","i","t","h"," ","c","i","t","a","t","i","o","n","s",".","\n"," "," "," "," ">>

\* system_prompt, an f-string around state['research_topic']
SystemPrompt(topic) == SystemPromptHead \o topic \o SystemPromptTail

\* prompt_messages = [HumanMessage(content=system_prompt)] + state["messages"]
PromptMessages(topic, msgs) == <<HumanMessage(SystemPrompt(topic))>> \o msgs

\* research_agent's update, a faulty variant: the directive is returned with the response
ResearchAgentUpdateWithPrompt(prompt_messages, response) ==
    [messages |-> <<Head(prompt_messages), response>>]

\* research_agent: return {"messages": [response]}
ResearchAgentUpdate(prompt_messages, response) == [messages |-> <<response>>]

\* the research_agent node and the edge out of it; the model answers the
\* conversation that follows the directive
ResearchStep ==
    /\ node = "RESEARCHING"
    /\ Len(messages) < MaxMsgs
    /\ LET prompt_messages == PromptMessages(research_topic, messages) IN
       \E response \in ResearchResponses(Tail(prompt_messages)) :
        LET update == ResearchAgentUpdate(prompt_messages, response) IN
        /\ messages' = MergedMessages(update, messages)
        /\ user_id' = MergedUserId(update, user_id)
        /\ batches' = IF response.tool_calls # <<>> THEN batches + 1 ELSE batches
    /\ node' = ResearchEdge(CheckAgentStatus(messages'))
    /\ UNCHANGED <<research_topic, intent, dispatched>>
    /\ UNCHANGED storeVars
    /\ UNCHANGED procVars

\* the tool_executor node and the edge out of it
ToolStep ==
    /\ node = "TOOL_EXECUTING"
    /\ LET run == RunToolCalls([db |-> db, saved |-> saved, call |-> call, ret |-> ret,
                                prevCall |-> prevCall, prevRet |-> prevRet, out |-> <<>>],
                               Last(messages).tool_calls)
       IN  /\ messages' = messages \o run.out
           /\ db' = run.db
           /\ saved' = run.saved
           /\ call' = run.call
           /\ ret' = run.ret
           /\ prevCall' = run.prevCall
           /\ prevRet' = run.prevRet
    /\ node' = AfterToolExecutor
    /\ dispatched' = dispatched + 1
    /\ UNCHANGED <<user_id, research_topic, intent, batches>>
    /\ UNCHANGED procVars

\* the study_agent node and the edge out of it, for the answers the model
\* may give
StudyAgent(responses) ==
    /\ node = "STUDYING"
    /\ ret' = Summarize(db, user_id, research_topic)
    /\ db' = StoreAfterSummarize(db, user_id, research_topic)
    /\ call' = [op |-> "summarize_topic_knowledge", user_id |-> user_id,
                topic |-> research_topic]
    /\ prevCall' = call
    /\ prevRet' = ret
    /\ \E response \in responses : messages' = Append(messages, response)
    /\ node' = AfterStudyAgent
    /\ UNCHANGED <<saved, user_id, research_topic, intent, batches, dispatched>>
    /\ UNCHANGED procVars

\* the study_agent node, the model given no tools answering without tool calls
StudyStep == StudyAgent(StudyResponses)

\* the study_agent node, the model answering as it pleases: its message may
\* carry tool calls although llm has no tools bound
StudyStepAnyAnswer == StudyAgent(ResearchResponses(messages))

\* app.invoke(inputs, ...): one turn, from START
Init == InitTurn(ExampleQueries)

Next ==
    \/ RouterStep
    \/ ResearchStep
    \/ ToolStep
    \/ StudyStep

Spec == Init /\ [][Next]_vars

\* one turn, whatever message the model returns to the Study Agent
NextAnyStudyAnswer ==
    \/ RouterStep
    \/ ResearchStep
    \/ ToolStep
    \/ StudyStepAnyAnswer

SpecAnyStudyAnswer == Init /\ [][NextAnyStudyAnswer]_vars

---------------------------------------------------------------------------
(* The import of main.py, statement by statement (src/main.py:2-37).       *)

\* the environment variables the module and its collaborators read
EnvNames == {"GEMINI_API_KEY", "GOOGLE_API_KEY", "GOOGLE_CSE_ID"}

\* the names the import statements of main.py bind (lines 2-12)
ModuleNames ==
    {"logging", "TypedDict", "Annotated", "List", "Literal", "add", "BaseMessage",
     "HumanMessage", "AIMessage", "ChatGoogleGenerativeAI", "StateGraph", "END", "START",
     "InMemorySaver", "ToolNode", "GoogleSearchRun", "GoogleSearchAPIWrapper", "load_dotenv"}

\* raise ValueError("GEMINI_API_KEY environment variable not set. Please set it.")
MissingKeyError == "ValueError: GEMINI_API_KEY environment variable not set. Please set it."

\* load_dotenv(): the variables of the .env file are added to the environment
LoadDotenv ==
    /\ startup.pc = "load_dotenv"
    /\ startup' = [startup EXCEPT !.pc = "import_tools", !.environ = @ \cup startup.dotenv]
    /\ UNCHANGED <<db, call, ret, prevCall, prevRet, saved, savers, overlapped>>
    /\ UNCHANGED turnVars

\* try: from custom_tools import ... except ImportError: print(...); exit()
\* the import constructs RESEARCH_BANK
ImportTools ==
    /\ startup.pc = "import_tools"
    /\ IF startup.custom_tools
       THEN /\ startup' = [startup EXCEPT !.pc = "build_search"]
            /\ db' = InitialDb
       ELSE /\ startup' = [startup EXCEPT !.pc = "exited"]
            /\ db' = db
    /\ UNCHANGED <<call, ret, prevCall, prevRet, saved, savers, overlapped>>
    /\ UNCHANGED turnVars

\* search = GoogleSearchAPIWrapper(); google_search_tool = GoogleSearchRun(...)
\* the constructor is a collaborator's: it returns or it raises
BuildSearch ==
    /\ startup.pc = "build_search"
    /\ \/ startup' = [startup EXCEPT !.pc = "check_key", !.search = TRUE]
       \/ startup' = [startup EXCEPT !.pc = "failed", !.error = "GoogleSearchAPIWrapper"]
    /\ UNCHANGED <<db, call, ret, prevCall, prevRet, saved, savers, overlapped>>
    /\ UNCHANGED turnVars

\* if not os.getenv("GEMINI_API_KEY"): raise ValueError(...)
\* the name os is looked up first; past the test come the model and the graph
CheckKey ==
    /\ startup.pc = "check_key"
    /\ startup' =
         IF "os" \notin ModuleNames
         THEN [startup EXCEPT !.pc = "failed", !.error = "NameError: name 'os' is not defined"]
         ELSE IF "GEMINI_API_KEY" \notin startup.environ
         THEN [startup EXCEPT !.pc = "failed", !.error = MissingKeyError]
         ELSE [startup EXCEPT !.pc = "configure_llm"]
    /\ UNCHANGED <<db, call, ret, prevCall, prevRet, saved, savers, overlapped>>
    /\ UNCHANGED turnVars

\* python main.py, in any environment, with any .env file, with or without
\* custom_tools.py beside it
InitStartup ==
    /\ db = EmptyDict
    /\ call = NoCall
    /\ ret = Returned(<<>>)
    /\ prevCall = NoCall
    /\ prevRet = Returned(<<>>)
    /\ saved = <<>>
    /\ messages = <<>>
    /\ user_id = SeedUser
    /\ research_topic = <<>>
    /\ intent = ""
    /\ node = "IDLE"
    /\ batches = 0
    /\ dispatched = 0
    /\ \E env \in SUBSET EnvNames, file \in SUBSET EnvNames, present \in BOOLEAN :
        startup = [pc |-> "load_dotenv", environ |-> env, dotenv |-> file,
                   custom_tools |-> present, search |-> FALSE, error |-> "none"]
    /\ savers = NoSavers
    /\ overlapped = FALSE

NextStartup == LoadDotenv \/ ImportTools \/ BuildSearch \/ CheckKey

SpecStartup == InitStartup /\ [][NextStartup]_vars

---------------------------------------------------------------------------
(* save_finding called from two threads, statement by statement            *)
(* (src/custom_tools.py:31-41).                                            *)

Threads == {1, 2}

\* if user_id not in RESEARCH_BANK.db
UserMissing(d, u) == u \notin DOMAIN d

\* RESEARCH_BANK.db[user_id] = {}
WithUserRecord(d, u) == (u :> EmptyDict) @@ d

\* if topic not in RESEARCH_BANK.db[user_id], a faulty variant: no test
TopicMissingAlways(d, u, t) == TRUE

\* if topic not in RESEARCH_BANK.db[user_id]
TopicMissing(d, u, t) == t \notin DOMAIN d[u]

\* RESEARCH_BANK.db[user_id][topic] = []
WithLedger(d, u, t) == [d EXCEPT ![u] = (t :> <<>>) @@ @]

\* RESEARCH_BANK.db[user_id][topic].append(finding)
WithFinding(d, u, t, f) == [d EXCEPT ![u][t] = Append(@, f)]

\* the call of thread p is between its first statement and its return
InProgress(p) == savers[p].pc \notin {"idle", "returned", "raised"}

SaverFrame ==
    /\ UNCHANGED <<call, ret, prevCall, prevRet, startup>>
    /\ UNCHANGED turnVars

\* thread p enters save_finding
Begin(p) ==
    /\ savers[p].pc = "idle"
    /\ savers' = [savers EXCEPT ![p].pc = "check_user"]
    /\ overlapped' = (overlapped \/ \E q \in Threads \ {p} : InProgress(q))
    /\ UNCHANGED <<db, saved>>
    /\ SaverFrame

\* line 31
CheckUser(p) ==
    /\ savers[p].pc = "check_user"
    /\ savers' = [savers EXCEPT ![p].pc =
                    IF UserMissing(db, savers[p].user_id) THEN "create_user" ELSE "check_topic"]
    /\ UNCHANGED <<db, saved, overlapped>>
    /\ SaverFrame

\* line 32
CreateUser(p) ==
    /\ savers[p].pc = "create_user"
    /\ db' = WithUserRecord(db, savers[p].user_id)
    /\ savers' = [savers EXCEPT ![p].pc = "check_topic"]
    /\ UNCHANGED <<saved, overlapped>>
    /\ SaverFrame

\* line 33
CheckTopic(p) ==
    /\ savers[p].pc = "check_topic"
    /\ savers' = [savers EXCEPT ![p].pc =
                    IF TopicMissing(db, savers[p].user_id, savers[p].topic)
                    THEN "create_topic" ELSE "append"]
    /\ UNCHANGED <<db, saved, overlapped>>
    /\ SaverFrame

\* line 34
CreateTopic(p) ==
    /\ savers[p].pc = "create_topic"
    /\ db' = WithLedger(db, savers[p].user_id, savers[p].topic)
    /\ savers' = [savers EXCEPT ![p].pc = "append"]
    /\ UNCHANGED <<saved, overlapped>>
    /\ SaverFrame

\* lines 36-41: the append and the return; the subscript raises KeyError when
\* the ledger is no longer in the user record
AppendFinding(p) ==
    /\ savers[p].pc = "append"
    /\ LET u == savers[p].user_id
           t == savers[p].topic
           f == savers[p].finding
       IN  IF t \in DOMAIN db[u]
           THEN /\ db' = WithFinding(db, u, t, f)
                /\ saved' = Append(saved, <<u, t, f>>)
                /\ savers' = [savers EXCEPT ![p].pc = "returned"]
           ELSE /\ UNCHANGED <<db, saved>>
                /\ savers' = [savers EXCEPT ![p].pc = "raised"]
    /\ UNCHANGED overlapped
    /\ SaverFrame

\* two threads about to save for the same user, the store as constructed
InitConcurrent ==
    /\ db = InitialDb
    /\ call = NoCall
    /\ ret = Returned(<<>>)
    /\ prevCall = NoCall
    /\ prevRet = Returned(<<>>)
    /\ saved = <<>>
    /\ messages = <<>>
    /\ user_id = SeedUser
    /\ research_topic = <<>>
    /\ intent = ""
    /\ node = "IDLE"
    /\ batches = 0
    /\ dispatched = 0
    /\ startup = StartupNotFollowed
    /\ \E u \in UserIds, t1 \in Topics, t2 \in Topics, f1 \in Findings, f2 \in Findings :
        savers = <<[pc |-> "idle", user_id |-> u, topic |-> t1, finding |-> f1],
                   [pc |-> "idle", user_id |-> u, topic |-> t2, finding |-> f2]>>
    /\ overlapped = FALSE

NextConcurrent ==
    \E p \in Threads :
        \/ Begin(p)
        \/ CheckUser(p)
        \/ CreateUser(p)
        \/ CheckTopic(p)
        \/ CreateTopic(p)
        \/ AppendFinding(p)

SpecConcurrent == InitConcurrent /\ [][NextConcurrent]_vars

---------------------------------------------------------------------------
(* Claims about the knowledge store, checked under SpecStore.              *)

\* the ledger of (u, t) in store d, empty when there is none
Ledger(d, u, t) == IF u \in DOMAIN d /\ t \in DOMAIN d[u] THEN d[u][t] ELSE <<>>

\* the findings saved to (u, t) so far, in the order of the calls
RECURSIVE SavedFor(_, _, _)
SavedFor(log, u, t) ==
    IF log = <<>> THEN <<>>
    ELSE LET e == Head(log) IN
         (IF e[1] = u /\ e[2] = t THEN <<e[3]>> ELSE <<>>) \o SavedFor(Tail(log), u, t)

\* a bulleted list: every item on a line of its own, after "- "
RECURSIVE Bullets(_)
Bullets(items) ==
    IF items = <<>> THEN <<>> ELSE BulletSep \o Head(items) \o Bullets(Tail(items))

\* the heading that opens a summary of topic t
Heading(t) == SummaryPrefix \o t \o <<"'", ":">>

\* the items a summary of topic t shows, read back from its text
SummaryItems(text, t) ==
    Split(SubSeq(text, Len(Heading(t)) + Len(BulletSep) + 1, Len(text)), BulletSep)

IsSummarize == call.op = "summarize_topic_knowledge"

\* C1 as stated: summarize(u, t) lists exactly the findings saved to (u, t),
\* f1..fn, in the order they were saved, each once (n >= 1).
C1_AsStated ==
    (IsSummarize /\ SavedFor(saved, call.user_id, call.topic) # <<>>)
        => ret = Returned(Heading(call.topic)
                            \o Bullets(SavedFor(saved, call.user_id, call.topic)))

\* C1 amended: summarize(u, t) lists the findings the store was constructed
\* with for (u, t), then f1..fn in the order they were saved, each once; read
\* back item by item they are that list when no finding holds the bullet
\* separator.
C1_SummaryListsSeedThenSaves ==
    LET u == call.user_id
        t == call.topic
        all == Ledger(InitialDb, u, t) \o SavedFor(saved, u, t)
    IN  (IsSummarize /\ SavedFor(saved, u, t) # <<>>)
            => /\ ret = Returned(Heading(t) \o Bullets(all))
               /\ (\A i \in DOMAIN all : ~Contains(all[i], BulletSep))
                    => SummaryItems(ret.value, t) = all

\* two findings saved to one ledger, a save to another ledger in between,
\* then the summary of the first
C1_Witness ==
    /\ IsSummarize
    /\ Len(SavedFor(saved, call.user_id, call.topic)) >= 2
    /\ Len(saved) > Len(SavedFor(saved, call.user_id, call.topic))
    /\ saved[2][1] # call.user_id

\* C2: summarize for a user with no record, or a topic with no ledger for
\* that user, returns the placeholder summary and does not raise.
C2_UnknownGivesPlaceholder ==
    (IsSummarize /\ (call.user_id \notin DOMAIN db \/ call.topic \notin DOMAIN db[call.user_id]))
        => ret = Returned(Heading(call.topic) \o BulletSep \o NoFindings)

\* a known user asked about a topic without a ledger, after saves elsewhere
C2_Witness ==
    /\ IsSummarize
    /\ call.user_id \in DOMAIN db
    /\ call.topic \notin DOMAIN db[call.user_id]
    /\ 102 \in DOMAIN db

\* C3: summarize called twice in a row with the same arguments (no save in
\* between) returns the same text both times.
C3_SummarizeTwiceSame ==
    (IsSummarize /\ prevCall = call) => ret = prevRet

\* the repeated call, on a store that has been written to
C3_Witness ==
    /\ IsSummarize
    /\ prevCall = call
    /\ saved # <<>>
    /\ Ledger(db, call.user_id, call.topic) # <<>>

---------------------------------------------------------------------------
(* Claims about the router, checked under SpecRouter.                      *)

\* the router has run on the turn's message
Routed == node # "ROUTING"

\* the text the router was given
RoutedText == messages[1].content

\* the same letter, in either case
SameLetter(a, b) ==
    a = b \/ \E j \in DOMAIN UpperCase : {a, b} = {UpperCase[j], LowerCase[j]}

\* kw occurs in s, the case of letters ignored
Mentions(s, kw) ==
    \E i \in 1..Len(s) :
        /\ i + Len(kw) - 1 <= Len(s)
        /\ \A k \in 1..Len(kw) : SameLetter(s[i + k - 1], kw[k])

AsksResearch(s) == Mentions(s, KwResearch) \/ Mentions(s, KwFindFacts)
AsksStudy(s)    == Mentions(s, KwTestMe) \/ Mentions(s, KwExplain)

\* C4: the intent is RESEARCH if the message mentions "research" or "find
\* facts" in any case, else STUDY if it mentions "test me" or "explain", else
\* GENERAL; "Hello there" is GENERAL.
C4_IntentByFirstMatch ==
    Routed =>
        /\ intent = (IF AsksResearch(RoutedText) THEN "RESEARCH"
                     ELSE IF AsksStudy(RoutedText) THEN "STUDY" ELSE "GENERAL")
        /\ (RoutedText = MsgHello => intent = "GENERAL")

\* a message with a STUDY keyword and a capitalised RESEARCH keyword
C4_Witness ==
    /\ Routed
    /\ AsksStudy(RoutedText)
    /\ AsksResearch(RoutedText)
    /\ ~Contains(RoutedText, KwResearch)
    /\ ~Contains(RoutedText, KwFindFacts)
    /\ intent = "RESEARCH"

\* t is s without its leading and trailing whitespace
IsTrimOf(t, s) ==
    \E a \in 0..Len(s) :
        /\ a + Len(t) <= Len(s)
        /\ SubSeq(s, a + 1, a + Len(t)) = t
        /\ \A i \in 1..Len(s) : (i <= a \/ i > a + Len(t)) => s[i] \in Whitespace
        /\ t # <<>> => (t[1] \notin Whitespace /\ t[Len(t)] \notin Whitespace)

\* the position of the last occurrence of sub in s, 0 when there is none
LastOccurrence(s, sub) ==
    IF Contains(s, sub)
    THEN CHOOSE i \in 1..Len(s) :
            MatchAt(s, sub, i) /\ \A j \in (i + 1)..Len(s) : ~MatchAt(s, sub, j)
    ELSE 0

\* the position of the last occurrence a left-to-right scan finds, where each
\* occurrence found uses up its characters; 0 when there is none
RECURSIVE LastScanned(_, _, _, _)
LastScanned(s, sub, from, found) ==
    IF \E i \in from..Len(s) : MatchAt(s, sub, i)
    THEN LET next == CHOOSE i \in from..Len(s) :
                        MatchAt(s, sub, i) /\ \A j \in from..(i - 1) : ~MatchAt(s, sub, j)
         IN  LastScanned(s, sub, next + Len(sub), next)
    ELSE found

\* what follows position p of the delimiter in s; all of s when p = 0
After(s, p) == IF p = 0 THEN s ELSE SubSeq(s, p + Len(TopicDelim), Len(s))

StudyTopicExpected ==
    <<"Q","u","a","n","t","u","m"," ","C","o","m","p","u","t","i","n","g","."," ","W","h","a",
      "t"," ","i","s"," ","a"," ","q","u","b","i","t","?">>

\* C5 as stated: for RESEARCH and STUDY the topic is what follows the last
\* occurrence of " on " in the message, trimmed, and the trimmed message when
\* there is none; for GENERAL it is "General Inquiry".
C5_AsStated ==
    Routed =>
        /\ intent \in {"RESEARCH", "STUDY"}
            => IsTrimOf(research_topic, After(RoutedText, LastOccurrence(RoutedText, TopicDelim)))
        /\ intent = "GENERAL" => research_topic = GeneralTopic
        /\ RoutedText = MsgStudyQuery
            => (intent = "STUDY" /\ research_topic = StudyTopicExpected)

\* C5 amended: for RESEARCH and STUDY the topic is what follows the last " on "
\* that a left-to-right split finds (an occurrence that shares its space with
\* the one before it is not a delimiter), trimmed, and the trimmed message when
\* there is none; for GENERAL it is "General Inquiry".
C5_TopicAfterLastSplit ==
    Routed =>
        /\ intent \in {"RESEARCH", "STUDY"}
            => IsTrimOf(research_topic,
                        After(RoutedText, LastScanned(RoutedText, TopicDelim, 1, 0)))
        /\ intent = "GENERAL" => research_topic = GeneralTopic
        /\ RoutedText = MsgStudyQuery
            => (intent = "STUDY" /\ research_topic = StudyTopicExpected)

\* a RESEARCH or STUDY message whose last " on " overlaps the one before it
C5_Witness ==
    /\ Routed
    /\ intent \in {"RESEARCH", "STUDY"}
    /\ LastScanned(RoutedText, TopicDelim, 1, 0) # 0
    /\ LastScanned(RoutedText, TopicDelim, 1, 0) # LastOccurrence(RoutedText, TopicDelim)
    /\ research_topic # <<>>

\* C6 as stated: "Please research the current state of Quantum Computing"
\* gives intent RESEARCH and topic "Quantum Computing".
C6_AsStated ==
    (Routed /\ RoutedText = MsgSpecResearch)
        => (intent = "RESEARCH" /\ research_topic = SeedTopic)

\* C6 amended: that input gives intent RESEARCH and, holding no " on ", the
\* whole message as its topic.
C6_SpecExampleTopicIsMessage ==
    (Routed /\ RoutedText = MsgSpecResearch)
        => (intent = "RESEARCH" /\ research_topic = MsgSpecResearch)

\* the example has been routed
C6_Witness ==
    /\ Routed
    /\ RoutedText = MsgSpecResearch
    /\ ~Contains(RoutedText, TopicDelim)
    /\ research_topic # SeedTopic

---------------------------------------------------------------------------
(* Claims about the orchestrator, checked under Spec.                      *)

\* C7: out of RESEARCHING the turn goes to DONE when the agent's message
\* carries no tool call and to TOOL_EXECUTING when it carries one or more;
\* out of TOOL_EXECUTING it goes back to RESEARCHING, and every tool batch is
\* dispatched exactly once, whatever the number of its requests.
C7_ResearchBranchAndOneDispatch ==
    [][ /\ node = "RESEARCHING"
            => node' = (IF Len(Last(messages').tool_calls) = 0
                        THEN "DONE" ELSE "TOOL_EXECUTING")
        /\ node = "TOOL_EXECUTING"
            => (node' = "RESEARCHING" /\ dispatched' = dispatched + 1 /\ batches' = batches)
        /\ batches' - dispatched' = (IF node' = "TOOL_EXECUTING" THEN 1 ELSE 0)
      ]_vars

\* a finished turn with two tool batches, one of them of two requests
C7_Witness ==
    /\ node = "DONE"
    /\ batches = 2
    /\ dispatched = 2
    /\ \E i \in DOMAIN messages : Len(messages[i].tool_calls) = 2

\* C8: a turn starts in ROUTING with the intent unset; ROUTING leads to
\* RESEARCHING, STUDYING or DONE according to the intent the router sets,
\* which is one of RESEARCH, STUDY and GENERAL; RESEARCHING leads to
\* TOOL_EXECUTING or DONE, STUDYING to DONE, TOOL_EXECUTING to RESEARCHING;
\* TOOL_EXECUTING is entered from RESEARCHING only and nothing follows DONE.
C8_TransitionsOfTheStateMachine ==
    /\ node = "ROUTING"
    /\ [][ /\ node = "ROUTING"
               => /\ intent' \in {"RESEARCH", "STUDY", "GENERAL"}
                  /\ node' = "RESEARCHING" <=> intent' = "RESEARCH"
                  /\ node' = "STUDYING" <=> intent' = "STUDY"
                  /\ node' = "DONE" <=> intent' = "GENERAL"
           /\ node = "RESEARCHING" => node' \in {"TOOL_EXECUTING", "DONE"}
           /\ node = "STUDYING" => node' = "DONE"
           /\ node = "TOOL_EXECUTING" => node' = "RESEARCHING"
           /\ node' = "TOOL_EXECUTING" => node = "RESEARCHING"
           /\ node # "DONE"
           /\ node' # "ROUTING"
         ]_vars

\* a turn that came with the intent unset and ended from ROUTING
C8_Witness ==
    /\ node = "DONE"
    /\ intent = "GENERAL"
    /\ Len(messages) = 1

\* the assistant messages that carry tool calls
Requesting(msgs) == {i \in DOMAIN msgs : msgs[i].role = "ai" /\ msgs[i].tool_calls # <<>>}

\* the tool calls of message i are answered: the messages after it are their
\* results, one each and in their order, and the next one is not a result
Answered(msgs, i) ==
    LET calls == msgs[i].tool_calls IN
    /\ Len(msgs) >= i + Len(calls)
    /\ \A k \in DOMAIN calls :
        /\ msgs[i + k].role = "tool"
        /\ msgs[i + k].tool_call_id = calls[k].id
        /\ Cardinality({j \in DOMAIN msgs :
                            msgs[j].role = "tool" /\ msgs[j].tool_call_id = calls[k].id}) = 1
    /\ Len(msgs) > i + Len(calls) => msgs[i + Len(calls) + 1].role = "ai"

\* C9: the tool calls of every assistant message are answered before the next
\* assistant message, each by one result that carries its id, in the order of
\* the calls; only the calls of the last message, with the dispatcher about to
\* run, are still open.
C9_ToolCallsAnswered ==
    \A i \in Requesting(messages) :
        \/ Answered(messages, i)
        \/ (i = Len(messages) /\ node = "TOOL_EXECUTING")

\* a batch of two calls, one of them of a tool that does not exist, answered
\* and followed by the next assistant message
C9_Witness ==
    \E i \in Requesting(messages) :
        /\ Len(messages[i].tool_calls) = 2
        /\ messages[i].tool_calls[1].name = "lookup"
        /\ messages[i].tool_calls[2].name = "save_finding"
        /\ Len(messages) > i + 2
        /\ messages[i + 3].role = "ai"

\* C10 as stated: at DONE the last message is an assistant message produced in
\* this turn, not the user's input and not a tool result.
C10_AsStated ==
    node = "DONE" => (Len(messages) > 1 /\ Last(messages).role = "ai")

\* C11: a turn routed to the Study Agent goes from STUDYING to DONE in one
\* step that appends one assistant message and nothing else, also when that
\* message carries tool calls; it is never in RESEARCHING or TOOL_EXECUTING
\* and enters STUDYING from ROUTING only.
C11_StudyAnswersOnceAndEnds ==
    [][ /\ node = "STUDYING"
            => /\ node' = "DONE"
               /\ messages' = Append(messages, Last(messages'))
               /\ Last(messages').role = "ai"
        /\ node' = "STUDYING" => node = "ROUTING"
        /\ intent' = "STUDY"
            => /\ node' \in {"STUDYING", "DONE"}
               /\ node' = "DONE"
                    => /\ Len(messages') = 2
                       /\ Cardinality({i \in DOMAIN messages' : messages'[i].role = "ai"}) = 1
      ]_vars

\* a STUDY turn at DONE whose one answer carries tool calls
C11_Witness ==
    /\ intent = "STUDY"
    /\ node = "DONE"
    /\ Len(messages) = 2
    /\ Len(Last(messages).tool_calls) >= 1

\* every message the model has returned so far carries tool calls
OnlyToolCallsSoFar ==
    \A i \in DOMAIN messages : messages[i].role = "ai" => messages[i].tool_calls # <<>>

Intents == {"RESEARCH", "STUDY", "GENERAL"}

\* C13 as stated: the router never raises; once it has run, on an empty
\* message sequence as on any other, the intent is one of the three and a
\* topic is set, and a message without " on " gets a topic too.
C13_AsStated ==
    /\ node # "FAILED"
    /\ node # "ROUTING" => (intent \in Intents /\ research_topic # <<>>)

\* C16: the router step leaves the message sequence and the user id as they
\* were, for every input state; it changes no field of the store either.
C16_RouterFrame ==
    [][ node = "ROUTING"
            => /\ messages' = messages
               /\ user_id' = user_id
               /\ UNCHANGED <<batches, dispatched>>
               /\ UNCHANGED storeVars
      ]_vars

\* the router has classified a message and set a topic other than the one
\* the turn came with, for a user other than the seeded one
C16_Witness ==
    /\ node = "STUDYING"
    /\ intent = "STUDY"
    /\ research_topic # SeedTopic
    /\ user_id # SeedUser
    /\ Len(messages) = 1

\* the topics of user u in store d (none for a user without a record)
TopicsOf(d, u) == IF u \in DOMAIN d THEN DOMAIN d[u] ELSE {}

\* C17: a save_finding(u, t, f) call returns normally and makes the ledger of
\* (u, t) its former contents (empty if there was no record or ledger)
\* followed by f, also when f is already in it; the users of the store are
\* the former ones and u, the topics of u the former ones and t, and every
\* other ledger is as it was.
C17_SaveAppendsExactlyOne ==
    [][ saved' # saved
            => LET u == call'.user_id
                   t == call'.topic
                   f == call'.finding
               IN  /\ call'.op = "save_finding"
                   /\ saved' = Append(saved, <<u, t, f>>)
                   /\ ret' = SaveFindingResult(t)
                   /\ ret'.status = "ok"
                   /\ DOMAIN db' = DOMAIN db \cup {u}
                   /\ DOMAIN db'[u] = TopicsOf(db, u) \cup {t}
                   /\ db'[u][t] = Append(Ledger(db, u, t), f)
                   /\ \A v \in DOMAIN db : v # u => db'[v] = db[v]
                   /\ \A s \in TopicsOf(db, u) : s # t => db'[u][s] = db[u][s]
      ]_vars

\* a finding saved twice to a ledger that the first of the two saves created,
\* with its user record
C17_Witness ==
    /\ call.op = "save_finding"
    /\ call.user_id # SeedUser
    /\ Ledger(db, call.user_id, call.topic) = <<call.finding, call.finding>>
    /\ Ledger(db, SeedUser, SeedTopic) = <<SeedNote>>

IsPrefix(s, t) == Len(s) <= Len(t) /\ \A i \in DOMAIN s : s[i] = t[i]

\* C18: over every step of the store (calls run one at a time) each user
\* record and each topic stays, each ledger's contents are a prefix of its
\* contents after the step, the store changes only in a save, and a
\* summarize call leaves the store as it was, unseen user or topic included.
C18_StoreGrowsOnlyBySaveAppending ==
    [][ /\ \A u \in DOMAIN db :
            /\ u \in DOMAIN db'
            /\ \A t \in DOMAIN db[u] :
                /\ t \in DOMAIN db'[u]
                /\ IsPrefix(db[u][t], db'[u][t])
        /\ db' # db => (saved' # saved /\ call'.op = "save_finding")
        /\ (saved' = saved /\ call'.op = "summarize_topic_knowledge") => db' = db
      ]_vars

\* after a save, summarize has been called for a user without a record and,
\* before it, for a topic the seeded user has no ledger of; both are still absent
C18_Witness ==
    /\ saved # <<>>
    /\ IsSummarize
    /\ call.user_id \notin DOMAIN db
    /\ prevCall.op = "summarize_topic_knowledge"
    /\ prevCall.user_id = SeedUser
    /\ prevCall.topic \notin DOMAIN db[SeedUser]

\* C20: every step of a turn keeps the earlier messages as a prefix of the
\* message sequence; a Research Agent step and a Study Agent step each append
\* exactly one message, the model's, and leave the user id, the intent and
\* the research topic as they were; the directive of the Research Agent is
\* no message of the sequence.
C20_MessagesAppendOnly ==
    [][ /\ IsPrefix(messages, messages')
        /\ node \in {"RESEARCHING", "STUDYING"}
            => /\ messages' = Append(messages, Last(messages'))
               /\ Last(messages').role = "ai"
               /\ user_id' = user_id
               /\ intent' = intent
               /\ research_topic' = research_topic
        /\ \A i \in DOMAIN messages' :
                messages'[i].content # SystemPrompt(research_topic')
      ]_vars

\* a research turn has ended after the Research Agent ran twice, around one
\* tool batch
C20_Witness ==
    /\ node = "DONE"
    /\ intent = "RESEARCH"
    /\ dispatched = 1
    /\ Cardinality({i \in DOMAIN messages : messages[i].role = "ai"}) = 2
    /\ messages[1].role = "human"

---------------------------------------------------------------------------
(* Claims about startup (SpecStartup) and about threads (SpecConcurrent).  *)

\* C15 as stated: once the search tool is built, startup fails only for a
\* credential absent from the environment, and then with the
\* missing-credential diagnostic; with the credential present it goes on to
\* configure the model.
C15_AsStated ==
    (startup.pc = "failed" /\ startup.search)
        => /\ "GEMINI_API_KEY" \notin startup.environ
           /\ startup.error = MissingKeyError

\* both calls have come to their end
BothEnded == \A p \in Threads : savers[p].pc \in {"returned", "raised"}

\* the store after the two calls run one after the other, in either order
SerialOutcomes ==
    LET a == savers[1]
        b == savers[2]
    IN  { SaveFinding(SaveFinding(InitialDb, a.user_id, a.topic, a.finding),
                      b.user_id, b.topic, b.finding),
          SaveFinding(SaveFinding(InitialDb, b.user_id, b.topic, b.finding),
                      a.user_id, a.topic, a.finding) }

\* C19: two save_finding calls of which neither began while the other was
\* running both return and leave the store as two saves in a row do, both
\* findings in their ledgers; the same holds, overlap or not, when the user
\* record and both ledgers existed before the calls. (The loss under an
\* overlap is the state C19_Witness describes.)
C19_SerializedSavesKeepBoth ==
    /\ (BothEnded /\ ~overlapped)
        => /\ \A p \in Threads : savers[p].pc = "returned"
           /\ db \in SerialOutcomes
    /\ ( /\ BothEnded
         /\ \A p \in Threads :
                /\ savers[p].user_id \in DOMAIN InitialDb
                /\ savers[p].topic \in DOMAIN InitialDb[savers[p].user_id] )
        => /\ \A p \in Threads : savers[p].pc = "returned"
           /\ db \in SerialOutcomes

\* a lost update: two overlapping calls for one user and one topic without a
\* ledger have both returned, and the ledger holds one finding
C19_Witness ==
    /\ \A p \in Threads : savers[p].pc = "returned"
    /\ overlapped
    /\ savers[1].topic = savers[2].topic
    /\ Ledger(InitialDb, savers[1].user_id, savers[1].topic) = <<>>
    /\ Len(Ledger(db, savers[1].user_id, savers[1].topic)) = 1
    /\ Len(saved) = 2

===========================================================================
